---- MODULE Spec2Model ----
(***************************************************************************)
(* CheckoutForm (src/src/components/blocks/CheckoutForm/index.tsx).        *)
(*                                                                         *)
(* A string is a sequence of one-character strings, so that formatting,    *)
(* parsing and validation are computed character by character.  The null   *)
(* of the default state is the value NULL.  Today is the month the clock   *)
(* of the browser shows.                                                   *)
(*                                                                         *)
(* models is the store of useModels, state the state of useValidator       *)
(* ($data, $errors, $auto_invalid), loading the prop of that name.         *)
(* effectPending holds between a render and the run of the effect that     *)
(* render scheduled.  lastEvent is the event handled last, and out the     *)
(* arguments of the onSuccess calls made while handling it.                *)
(*                                                                         *)
(* The functions of the packages creditcardutils and joi are modelled by   *)
(* what they compute; the hooks useModels (@packages/react-use-models) and *)
(* useValidator (@packages/react-joi) by their contract: a store replaced  *)
(* field by field, and a validator that keeps, for the data it was last    *)
(* given, one error list per field and the flag $auto_invalid.             *)
(***************************************************************************)
EXTENDS Integers, Sequences, FiniteSets, TLC

VARIABLES models, state, loading, effectPending, lastEvent, out

vars == <<models, state, loading, effectPending, lastEvent, out>>

\* null (and undefined): a value that is no string of characters.
NULL == <<"null">>

Fields == {"email", "card_number", "card_expire", "cvv"}

\* ------------------------------------------------------------------------
\* Characters and small string helpers (JavaScript string primitives)
\* ------------------------------------------------------------------------

DigitChars == <<"0", "1", "2", "3", "4", "5", "6", "7", "8", "9">>

IsDigit(c) == \E i \in 1..10 : DigitChars[i] = c

DigitVal(c) == (CHOOSE i \in 1..10 : DigitChars[i] = c) - 1

IsSpace(c) == c = " "

AllDigits(s) == Len(s) > 0 /\ \A i \in 1..Len(s) : IsDigit(s[i])

\* s.replace(/\D/g, '')
StripNonDigits(s) == SelectSeq(s, IsDigit)

IsSpaceOrDash(c) == c = " " \/ c = "-"

NotSpaceOrDash(c) == ~IsSpaceOrDash(c)

Rep(c, n) == [i \in 1..n |-> c]

Min(a, b) == IF a < b THEN a ELSE b

HasPrefix(s, p) == Len(s) >= Len(p) /\ SubSeq(s, 1, Len(p)) = p

\* Length of the longest prefix of s whose characters all satisfy / fail IsDigit.
RECURSIVE DigitRun(_)
DigitRun(s) ==
    IF s = <<>> \/ ~IsDigit(s[1]) THEN 0 ELSE 1 + DigitRun(Tail(s))

RECURSIVE NonDigitRun(_)
NonDigitRun(s) ==
    IF s = <<>> \/ IsDigit(s[1]) THEN 0 ELSE 1 + NonDigitRun(Tail(s))

Drop(s, n) == SubSeq(s, n + 1, Len(s))

Take(s, n) == SubSeq(s, 1, Min(n, Len(s)))

\* String(trim(x)): leading and trailing blanks removed.
RECURSIVE TrimLeft(_)
TrimLeft(s) == IF s # <<>> /\ IsSpace(s[1]) THEN TrimLeft(Tail(s)) ELSE s

RECURSIVE TrimRight(_)
TrimRight(s) ==
    IF s # <<>> /\ IsSpace(s[Len(s)]) THEN TrimRight(SubSeq(s, 1, Len(s) - 1)) ELSE s

Trim(s) == TrimRight(TrimLeft(s))

\* Decimal value of a string of digits.
RECURSIVE DecVal(_)
DecVal(s) ==
    IF s = <<>> THEN 0 ELSE DecVal(SubSeq(s, 1, Len(s) - 1)) * 10 + DigitVal(s[Len(s)])

\* parseInt(s, 10): the leading digits' value, NaN (ok = FALSE) when there are none.
\* A missing string (undefined) is passed as NULL.
ParseInt(s) ==
    IF s = NULL THEN [ok |-> FALSE, val |-> 0]
    ELSE LET t == TrimLeft(s)
             n == DigitRun(t)
         IN  IF n = 0 THEN [ok |-> FALSE, val |-> 0]
             ELSE [ok |-> TRUE, val |-> DecVal(SubSeq(t, 1, n))]

\* Number of characters of String(n) for n >= 0.
RECURSIVE NumLen(_)
NumLen(n) == IF n < 10 THEN 1 ELSE 1 + NumLen(n \div 10)

\* ------------------------------------------------------------------------
\* creditcardutils: the card table
\* ------------------------------------------------------------------------

\* format "global" is /(\d{1,4})/g; otherwise the group sizes of the card's
\* own format expression.
Cards == <<
    [type |-> "visaelectron",
     prefixes |-> {<<"4","0","2","6">>, <<"4","1","7","5","0","0">>, <<"4","4","0","5">>,
                   <<"4","5","0","8">>, <<"4","8","4","4">>, <<"4","9","1","3">>,
                   <<"4","9","1","7">>},
     global |-> TRUE, groups |-> <<>>, length |-> {16}, luhn |-> TRUE],
    [type |-> "maestro",
     prefixes |-> {<<"5","0","1","8">>, <<"5","0","2">>, <<"5","0","3">>, <<"5","6">>,
                   <<"5","8">>, <<"6","3","9">>, <<"6","7">>},
     global |-> TRUE, groups |-> <<>>, length |-> 12..19, luhn |-> TRUE],
    [type |-> "forbrugsforeningen",
     prefixes |-> {<<"6","0","0">>},
     global |-> TRUE, groups |-> <<>>, length |-> {16}, luhn |-> TRUE],
    [type |-> "dankort",
     prefixes |-> {<<"5","0","1","9">>},
     global |-> TRUE, groups |-> <<>>, length |-> {16}, luhn |-> TRUE],
    [type |-> "visa",
     prefixes |-> {<<"4">>},
     global |-> TRUE, groups |-> <<>>, length |-> {13, 16}, luhn |-> TRUE],
    [type |-> "mastercard",
     prefixes |-> {<<"5","1">>, <<"5","2">>, <<"5","3">>, <<"5","4">>, <<"5","5">>,
                   <<"2","2">>, <<"2","3">>, <<"2","4">>, <<"2","5">>, <<"2","6">>,
                   <<"2","7">>},
     global |-> TRUE, groups |-> <<>>, length |-> {16}, luhn |-> TRUE],
    [type |-> "amex",
     prefixes |-> {<<"3","4">>, <<"3","7">>},
     global |-> FALSE, groups |-> <<4, 6, 5>>, length |-> {15}, luhn |-> TRUE],
    [type |-> "dinersclub",
     prefixes |-> {<<"3","0">>, <<"3","6">>, <<"3","8">>, <<"3","9">>},
     global |-> FALSE, groups |-> <<4, 6, 4>>, length |-> {14}, luhn |-> TRUE],
    [type |-> "discover",
     prefixes |-> {<<"6","0">>, <<"6","4">>, <<"6","5">>, <<"6","2","2">>},
     global |-> TRUE, groups |-> <<>>, length |-> {16}, luhn |-> TRUE],
    [type |-> "unionpay",
     prefixes |-> {<<"6","2">>, <<"8","8">>},
     global |-> TRUE, groups |-> <<>>, length |-> 16..19, luhn |-> FALSE],
    [type |-> "jcb",
     prefixes |-> {<<"3","5">>},
     global |-> TRUE, groups |-> <<>>, length |-> {16}, luhn |-> TRUE] >>

NoCard == [type |-> "none", prefixes |-> {}, global |-> TRUE, groups |-> <<>>,
           length |-> {}, luhn |-> TRUE]

CardMatches(card, num) == \E p \in card.prefixes : HasPrefix(num, p)

\* cardFromNumber(num): the first card of the table whose pattern matches the
\* digits of num.
cardFromNumber(num) ==
    LET d == StripNonDigits(num)
        hits == {i \in 1..Len(Cards) : CardMatches(Cards[i], d)}
    IN  IF hits = {} THEN NoCard
        ELSE Cards[CHOOSE i \in hits : \A j \in hits : i <= j]

\* parseCardType(num): the card's type; "null" stands for the null returned for
\* a missing or empty number or an unknown card.
parseCardType(num) ==
    IF num = NULL \/ num = <<>> THEN "null"
    ELSE LET card == cardFromNumber(num)
         IN  IF card = NoCard THEN "null" ELSE card.type

\* luhnCheck(num): from the last digit, every second digit doubled (minus 9
\* when above 9); the sum is a multiple of 10.
RECURSIVE LuhnSum(_, _)
LuhnSum(digits, odd) ==
    IF digits = <<>> THEN 0
    ELSE LET d == DigitVal(digits[Len(digits)])
             nowOdd == ~odd
             dd == IF nowOdd THEN d * 2 ELSE d
             v == IF dd > 9 THEN dd - 9 ELSE dd
         IN  v + LuhnSum(SubSeq(digits, 1, Len(digits) - 1), nowOdd)

luhnCheck(num) == LuhnSum(num, TRUE) % 10 = 0

\* validateCardNumber(num)
validateCardNumber(num) ==
    LET n == SelectSeq(num, NotSpaceOrDash)
        card == cardFromNumber(n)
    IN  /\ AllDigits(n)
        /\ card # NoCard
        /\ Len(n) \in card.length
        /\ (~card.luhn \/ luhnCheck(n))

\* Groups of at most four digits joined by a blank: num.match(/(\d{1,4})/g).join(' ')
RECURSIVE GroupsOfFour(_)
GroupsOfFour(s) ==
    IF Len(s) <= 4 THEN s
    ELSE SubSeq(s, 1, 4) \o <<" ">> \o GroupsOfFour(Drop(s, 4))

\* The non-global formats: successive groups of at most sizes[i] digits, the
\* empty ones dropped, joined by a blank.
RECURSIVE GroupsOfSizes(_, _)
GroupsOfSizes(s, sizes) ==
    IF s = <<>> \/ sizes = <<>> THEN <<>>
    ELSE LET head == Take(s, sizes[1])
             rest == GroupsOfSizes(Drop(s, Len(head)), Tail(sizes))
         IN  IF rest = <<>> THEN head ELSE head \o <<" ">> \o rest

MaxOf(S) == CHOOSE x \in S : \A y \in S : y <= x

\* formatCardNumber(num)
formatCardNumber(num) ==
    LET d == StripNonDigits(num)
        card == cardFromNumber(d)
    IN  IF card = NoCard THEN d
        ELSE LET capped == Take(d, MaxOf(card.length))
             IN  IF card.global THEN GroupsOfFour(capped)
                 ELSE GroupsOfSizes(capped, card.groups)

\* ------------------------------------------------------------------------
\* creditcardutils: expiry and CVC
\* ------------------------------------------------------------------------

Today == [year |-> 2026, month |-> 11]

\* formatCardExpiry(expiry): parts = expiry.match(/^\D*(\d{1,2})(\D+)?(\d{1,4})?/)
formatCardExpiry(expiry) ==
    LET s0 == Drop(expiry, NonDigitRun(expiry))
        nm == Min(2, DigitRun(s0))
        mon == SubSeq(s0, 1, nm)
        s1 == Drop(s0, nm)
        ns == NonDigitRun(s1)
        sep == SubSeq(s1, 1, ns)
        s2 == Drop(s1, ns)
        year == SubSeq(s2, 1, Min(4, DigitRun(s2)))
    IN  IF nm = 0 THEN <<>>
        ELSE IF Len(year) > 0 THEN mon \o <<" ", "/", " ">> \o year
        ELSE IF sep = <<" ", "/">> THEN SubSeq(mon, 1, 1)
        ELSE IF Len(mon) = 2 \/ Len(sep) > 0 THEN mon \o <<" ", "/", " ">>
        ELSE IF Len(mon) = 1 /\ mon # <<"0">> /\ mon # <<"1">>
             THEN <<"0">> \o mon \o <<" ", "/", " ">>
        ELSE mon

IsExpirySeparator(c) == c = " " \/ c = "/"

RECURSIVE SeparatorRun(_)
SeparatorRun(s) ==
    IF s = <<>> \/ ~IsExpirySeparator(s[1]) THEN 0 ELSE 1 + SeparatorRun(Tail(s))

RECURSIVE TokenRun(_)
TokenRun(s) ==
    IF s = <<>> \/ IsExpirySeparator(s[1]) THEN 0 ELSE 1 + TokenRun(Tail(s))

\* parseCardExpiry(value): [month, year] = value.split(/[\s\/]+/, 2); a year of
\* two digits gets the century of the current year; both go through parseInt.
parseCardExpiry(value) ==
    LET nm == TokenRun(value)
        month == SubSeq(value, 1, nm)
        r1 == Drop(value, nm)
        ns == SeparatorRun(r1)
        r2 == Drop(r1, ns)
        year0 == IF ns = 0 THEN NULL ELSE SubSeq(r2, 1, TokenRun(r2))
        year == IF year0 # NULL /\ Len(year0) = 2 /\ AllDigits(year0)
                THEN <<DigitChars[(Today.year \div 1000) + 1],
                       DigitChars[((Today.year \div 100) % 10) + 1]>> \o year0
                ELSE year0
    IN  [month |-> ParseInt(month), year |-> ParseInt(year)]

\* validateCardExpiry(month, year) on the two numbers parseCardExpiry returns:
\* NaN and 0 are falsy; the month is 1..12; the year has 2 or 4 digits; the first
\* day of the month after the expiry month is later than now.
validateCardExpiry(month, year) ==
    /\ month.ok /\ month.val # 0
    /\ year.ok /\ year.val # 0
    /\ month.val >= 1 /\ month.val <= 12
    /\ NumLen(year.val) \in {2, 4}
    /\ LET y == IF NumLen(year.val) = 2
                THEN (IF year.val < 70 THEN 2000 + year.val ELSE 1900 + year.val)
                ELSE year.val
       IN  y * 12 + month.val >= Today.year * 12 + Today.month

\* validateCardCVC(cvc) without a card type: digits only, 3 or 4 of them.
validateCardCVC(cvc) ==
    LET c == Trim(cvc)
    IN  AllDigits(c) /\ Len(c) >= 3 /\ Len(c) <= 4

\* ------------------------------------------------------------------------
\* Joi: the schema of useValidator
\* ------------------------------------------------------------------------

IsLetter(c) == c \in {"a", "b", "c"}

IsAtext(c) == IsLetter(c) \/ IsDigit(c)

IsAt(c) == c = "@"

\* A dot-separated list of non-empty runs of atext characters, at least
\* minSegments of them.
RECURSIVE DotSegments(_, _)
DotSegments(s, minSegments) ==
    LET n == IF s = <<>> THEN 0
             ELSE CHOOSE k \in 0..Len(s) :
                      /\ \A i \in 1..k : IsAtext(s[i])
                      /\ (k = Len(s) \/ ~IsAtext(s[k + 1]))
    IN  /\ n > 0
        /\ \/ n = Len(s) /\ minSegments <= 1
           \/ /\ n < Len(s)
              /\ s[n + 1] = "."
              /\ DotSegments(Drop(s, n + 1), minSegments - 1)

\* Joi.string().email({ tlds: { allow: false } }): one "@", a local part, and
\* a domain of at least two segments whose last one starts with a letter.
IsEmail(s) ==
    /\ Len(SelectSeq(s, IsAt)) = 1
    /\ LET at == CHOOSE i \in 1..Len(s) : s[i] = "@"
           local == SubSeq(s, 1, at - 1)
           domain == Drop(s, at)
           lastDot == IF \E i \in 1..Len(domain) : domain[i] = "."
                      THEN CHOOSE i \in 1..Len(domain) :
                               /\ domain[i] = "."
                               /\ \A j \in (i + 1)..Len(domain) : domain[j] # "."
                      ELSE 0
       IN  /\ DotSegments(local, 1)
           /\ DotSegments(domain, 2)
           /\ IsLetter(domain[lastDot + 1])

\* schemaRules with the cvv rules in the other order: the CVC check declared
\* before length(3).
schemaRulesCvvSwapped(field, value) ==
    CASE field = "email" ->
           IF ~IsEmail(value) THEN <<"string.email">> ELSE <<>>
      [] field = "card_number" ->
           (IF ~validateCardNumber(value) THEN <<"string.cardNumber">> ELSE <<>>)
           \o (IF parseCardType(value) \notin {"visa", "mastercard"}
               THEN <<"string.cardType">> ELSE <<>>)
      [] field = "card_expire" ->
           LET e == parseCardExpiry(value)
           IN  IF ~validateCardExpiry(e.month, e.year)
               THEN <<"string.cardExpire">> ELSE <<>>
      [] field = "cvv" ->
           (IF ~validateCardCVC(value) THEN <<"string.invalid">> ELSE <<>>)
           \o (IF Len(value) # 3 THEN <<"string.length">> ELSE <<>>)

\* schemaRules with the guard of the expiry rule inverted (if (!value)), so
\* that the rule never checks a non-empty value.
schemaRulesExpiryUnchecked(field, value) ==
    CASE field = "email" ->
           IF ~IsEmail(value) THEN <<"string.email">> ELSE <<>>
      [] field = "card_number" ->
           (IF ~validateCardNumber(value) THEN <<"string.cardNumber">> ELSE <<>>)
           \o (IF parseCardType(value) \notin {"visa", "mastercard"}
               THEN <<"string.cardType">> ELSE <<>>)
      [] field = "card_expire" -> <<>>
      [] field = "cvv" ->
           (IF Len(value) # 3 THEN <<"string.length">> ELSE <<>>)
           \o (IF ~validateCardCVC(value) THEN <<"string.invalid">> ELSE <<>>)

\* The failed rules of a field's schema for a non-empty string, in the order
\* the schema declares the rules (required() is a presence flag, not a rule).
schemaRules(field, value) ==
    CASE field = "email" ->
           IF ~IsEmail(value) THEN <<"string.email">> ELSE <<>>
      [] field = "card_number" ->
           (IF ~validateCardNumber(value) THEN <<"string.cardNumber">> ELSE <<>>)
           \o (IF parseCardType(value) \notin {"visa", "mastercard"}
               THEN <<"string.cardType">> ELSE <<>>)
      [] field = "card_expire" ->
           LET e == parseCardExpiry(value)
           IN  IF ~validateCardExpiry(e.month, e.year)
               THEN <<"string.cardExpire">> ELSE <<>>
      [] field = "cvv" ->
           (IF Len(value) # 3 THEN <<"string.length">> ELSE <<>>)
           \o (IF ~validateCardCVC(value) THEN <<"string.invalid">> ELSE <<>>)

\* Joi.string() on one key: a value that is no string fails the base type
\* with string.base, the empty string with string.empty, and only then are
\* the rules run.
schemaErrors(field, value) ==
    IF value = NULL THEN <<"string.base">>
    ELSE IF value = <<>> THEN <<"string.empty">>
    ELSE schemaRules(field, value)

\* The schema's .messages(): the text of an error code; a code the schema
\* does not name keeps Joi's own text.
messages(field, code) ==
    CASE code \in {"string.empty", "any.required"} -> "Required"
      [] code = "string.email" -> "Must be a valid email"
      [] code = "string.cardNumber" -> "Must be a valid card"
      [] code = "string.cardType" -> "Must be Visa / Master card type"
      [] code = "string.cardExpire" -> "Must be valid expiration date"
      [] code = "string.invalid" -> "Must be valid CVV"
      [] code = "string.length" -> "Maximum 3 digits"
      [] code = "string.base" ->
           (CASE field = "email" -> "\"email\" must be a string"
              [] field = "card_number" -> "\"card_number\" must be a string"
              [] field = "card_expire" -> "\"card_expire\" must be a string"
              [] field = "cvv" -> "\"cvv\" must be a string")

\* ------------------------------------------------------------------------
\* The two hooks: the model store and the validator
\* ------------------------------------------------------------------------

defaultState == [f \in Fields |-> NULL]

\* useModels: updateModel(name, value) replaces one field of the store.
updateModel(m, name, value) == [m EXCEPT ![name] = value]

\* useValidator: the error list of one field, the message of the first
\* failed check of its schema.
fieldErrors(field, value) ==
    LET codes == schemaErrors(field, value)
    IN  IF codes = <<>> THEN <<>> ELSE <<messages(field, Head(codes))>>

\* useValidator: setData(data) validates every field of data and derives the
\* aggregate flag.
setData(data) ==
    LET errs == [f \in Fields |-> fieldErrors(f, data[f])]
    IN  [data |-> data,
         errors |-> errs,
         auto_invalid |-> \E f \in Fields : errs[f] # <<>>]

\* ------------------------------------------------------------------------
\* What the user can type: e.target.value of a change event
\* ------------------------------------------------------------------------

Visa4111 == <<"4">> \o Rep("1", 15)

EmailInputs ==
    { <<>>, <<"a">>, <<"a", "@", "b">>, <<"a", "@", "b", ".", "c">> }

CardNumberInputs ==
    { <<>>,
      <<"4">>,
      <<"1", "2", "3", "4", "5">>,
      Visa4111,
      GroupsOfFour(Visa4111),
      <<"4">> \o Rep("1", 14) \o <<"2">>,
      <<"5", "5">> \o Rep("0", 13) \o <<"4">>,
      <<"3", "7", "8", "2", "8", "2", "2", "4", "6", "3", "1", "0", "0", "0", "5">> }

CardExpireInputs ==
    { <<>>,
      <<"1">>,
      <<"5">>,
      <<"1", "2", " ", "/", " ", "2">>,
      <<"1", "2", "2", "9">>,
      <<"1", "2", "/", "2", "9">>,
      <<"1", "0", "2", "6">> }

CvvInputs ==
    { <<>>, <<"1", "2">>, <<"1", "2", "3">>, <<"1", "2", "3", "4">>, <<"1", ".", "5">> }

Inputs(field) ==
    CASE field = "email" -> EmailInputs
      [] field = "card_number" -> CardNumberInputs
      [] field = "card_expire" -> CardExpireInputs
      [] field = "cvv" -> CvvInputs

\* ------------------------------------------------------------------------
\* The component
\* ------------------------------------------------------------------------

\* formatter without the formatting: e.target.value stored as typed.
formatterUnformatted(name, raw) == raw

\* The value a change event of a field stores: the formatter's for the card
\* number and the expiry, e.target.value for the two plain inputs.
formatter(name, raw) ==
    CASE name = "card_number" -> formatCardNumber(raw)
      [] name = "card_expire" -> formatCardExpiry(raw)
      [] OTHER -> raw

\* getErrors(field): the messages of the field joined by ",".
RECURSIVE JoinComma(_)
JoinComma(msgs) ==
    IF Len(msgs) <= 1 THEN msgs
    ELSE <<Head(msgs), ",">> \o JoinComma(Tail(msgs))

\* getErrors reading the email's errors whatever the field.
getErrorsOfEmail(field) == JoinComma(state.errors["email"])

getErrors(field) == JoinComma(state.errors[field])

\* disabled with && for ||.
SubmitDisabledBoth == state.auto_invalid /\ loading

\* <Submit disabled={state.$auto_invalid || loading}>
SubmitDisabled == state.auto_invalid \/ loading

\* onSuccess called with the default state instead of the validator's data.
onSubmitDefaultValues == defaultState

\* onSuccess(state.$data)
onSubmitValues == state.data

Event(type, field, raw) == [type |-> type, field |-> field, raw |-> raw]

Init ==
    /\ models = defaultState
    /\ state = setData(defaultState)
    /\ loading = FALSE
    /\ effectPending = TRUE
    /\ lastEvent = Event("mount", "", <<>>)
    /\ out = <<>>

\* useEffect(() => { setData(models) }, [models]): runs after the render that
\* follows a change of models (and the first one), before the next event.
SyncEffect ==
    /\ effectPending
    /\ state' = setData(models)
    /\ effectPending' = FALSE
    /\ lastEvent' = Event("effect", "", <<>>)
    /\ out' = <<>>
    /\ UNCHANGED <<models, loading>>

\* A change event of one input.
onChange(field, raw) ==
    /\ ~effectPending
    /\ models' = updateModel(models, field, formatter(field, raw))
    /\ effectPending' = TRUE
    /\ lastEvent' = Event("change", field, raw)
    /\ out' = <<>>
    /\ UNCHANGED <<state, loading>>

\* A submit event of the form: a click of the Submit button, which a disabled
\* button does not deliver, or a submit event dispatched on the form itself.
onSubmit(via) ==
    /\ ~effectPending
    /\ via = "button" => ~SubmitDisabled
    /\ out' = <<onSubmitValues>>
    /\ lastEvent' = Event("submit", via, <<>>)
    /\ UNCHANGED <<models, state, loading, effectPending>>

\* The parent renders the component with another value of the loading prop.
SetLoading ==
    /\ ~effectPending
    /\ loading' = ~loading
    /\ lastEvent' = Event("loading", "", <<>>)
    /\ out' = <<>>
    /\ UNCHANGED <<models, state, effectPending>>

Next ==
    \/ SyncEffect
    \/ \E field \in Fields : \E raw \in Inputs(field) : onChange(field, raw)
    \/ \E via \in {"button", "form"} : onSubmit(via)
    \/ SetLoading

Spec == Init /\ [][Next]_vars

\* ------------------------------------------------------------------------
\* Properties
\* ------------------------------------------------------------------------

Range(seq) == {seq[i] : i \in 1..Len(seq)}

\* A set of values is valid when every field holds a string that passes its schema.
AllValid(values) ==
    \A f \in Fields : values[f] # NULL /\ schemaErrors(f, values[f]) = <<>>

\* C1: every onSuccess call receives values whose four fields are non-null
\* and pass validation, and none is made while a field of the form is null or
\* has a validation error.
C1_OnSuccessOnlyValid ==
    \A i \in 1..Len(out) : AllValid(out[i]) /\ AllValid(models)

\* C2: in every state, the initial one included, the Submit button is
\* disabled when a field of the validated data fails its schema or the
\* loading prop is true.
C2_SubmitDisabled ==
    ((\E f \in Fields : schemaErrors(f, state.data[f]) # <<>>) \/ loading)
        => SubmitDisabled

C2_Witness ==
    /\ lastEvent.type = "effect"
    /\ models = defaultState
    /\ state.data = defaultState
    /\ ~loading
    /\ SubmitDisabled

\* C3: no render exists in which the model store holds a value while the
\* validator's data, error lists or flag are those of other values.
C3_AlwaysInSync == state = setData(models)

\* C4: a submit event on a form whose fields are all valid calls onSuccess
\* exactly once, with the model store's values at that instant.
C4_SubmitPassesModels ==
    (lastEvent.type = "submit" /\ AllValid(models))
        => (Len(out) = 1 /\ out[1] = models)

C4_Witness ==
    /\ lastEvent = Event("submit", "button", <<>>)
    /\ AllValid(models)
    /\ out = <<models>>

\* C5: a field whose value is empty or null, as all four are initially, has
\* the error list holding `Required`.
C5_EmptyOrNullIsRequired ==
    \A f \in Fields :
        state.data[f] \in {NULL, <<>>} => state.errors[f] = <<"Required">>

\* The rules of a field in the order the specification lists them, each with
\* its message and whether the value fails it.
RulesInOrder(field, value) ==
    LET missing == value \in {NULL, <<>>}
        required == [failed |-> missing, message |-> "Required"]
    IN  CASE field = "email" ->
               << required,
                  [failed |-> ~missing /\ ~IsEmail(value),
                   message |-> "Must be a valid email"] >>
          [] field = "card_number" ->
               << required,
                  [failed |-> ~missing /\ ~validateCardNumber(value),
                   message |-> "Must be a valid card"],
                  [failed |-> ~missing /\ parseCardType(value) \notin {"visa", "mastercard"},
                   message |-> "Must be Visa / Master card type"] >>
          [] field = "card_expire" ->
               << required,
                  [failed |-> ~missing
                              /\ ~validateCardExpiry(parseCardExpiry(value).month,
                                                     parseCardExpiry(value).year),
                   message |-> "Must be valid expiration date"] >>
          [] field = "cvv" ->
               << required,
                  [failed |-> ~missing /\ Len(value) # 3,
                   message |-> "Maximum 3 digits"],
                  [failed |-> ~missing /\ ~validateCardCVC(value),
                   message |-> "Must be valid CVV"] >>

FirstFailure(field, value) ==
    LET rules == RulesInOrder(field, value)
        failed == {i \in 1..Len(rules) : rules[i].failed}
    IN  IF failed = {} THEN <<>>
        ELSE <<rules[CHOOSE i \in failed : \A j \in failed : i <= j].message>>

\* C6: the error list of every field holds at most one message, that of the
\* first rule its value fails in the order required, Luhn, brand (card
\* number) and required, length 3, CVC check (cvv).
C6_FirstFailedRuleOnly ==
    \A f \in Fields : state.errors[f] = FirstFailure(f, state.data[f])

WrongLength(v) == v # NULL /\ v # <<>> /\ Len(v) # 3

IncompleteExpiry(v) == v # NULL /\ v # <<>> /\ Len(StripNonDigits(v)) < 4

C10_Frame ==
    [][ /\ lastEvent'.type = "change" =>
            /\ \A g \in Fields \ {lastEvent'.field} : models'[g] = models[g]
            /\ lastEvent'.field = "card_number"
                   => models'.card_number = formatCardNumber(lastEvent'.raw)
            /\ lastEvent'.field = "card_expire"
                   => models'.card_expire = formatCardExpiry(lastEvent'.raw)
        /\ lastEvent'.type = "submit" => models' = models ]_vars

C10_Witness ==
    /\ lastEvent.type = "change"
    /\ lastEvent.field = "card_number"
    /\ lastEvent.raw = Visa4111
    /\ models.card_number = GroupsOfFour(Visa4111)
    /\ models.email # NULL
    /\ models.cvv # NULL

====
